---- MODULE Spec2Model ----
(***************************************************************************)
(* A model of the experimental VertexModel layer:                          *)
(*   - vertex_fit_function_wrapper.f and VertexModel.__init__              *)
(*     (experimental/vertex_model/base.py), specification Spec;            *)
(*   - _serialize_local_model and _deserialize_remote_model                *)
(*     (experimental/vertex_model/serializers/model.py), specification     *)
(*     SpecSer.                                                            *)
(* Strings the code slices or concatenates are sequences of one-character  *)
(* strings; paths the code joins with "/" are sequences of components.     *)
(***************************************************************************)
EXTENDS Integers, Sequences, FiniteSets, TLC

VARIABLES
    training_mode,      \* obj.training_mode
    staging_bucket,     \* aiplatform.initializer.global_config.staging_bucket
    training_job,       \* obj._training_job
    pc,                 \* position of the fit call in progress
    call,               \* args and kwargs of the call in progress, while they are live
    bound_args,         \* bound_args.arguments of the call in progress
    mode_reads,         \* the values of training_mode the call in progress has read
    pass_through_params,
    serialized_params,
    folder,             \* serialized_inputs_artifacts_folder
    param_name_to_serialized_info,
    user_calls,         \* calls of the wrapped user method made by this call
    serializer_calls,   \* calls of registered savers made by this call
    render_calls,       \* calls of source_utils._make_source made by this call
    job_calls,          \* calls of aiplatform.CustomTrainingJob made by this call
    run_calls,          \* calls of obj._training_job.run made by this call
    staging_reads,      \* reads of global_config.staging_bucket made by this call
    tmpdir,             \* the TemporaryDirectory of this call
    script,             \* the script file of this call
    result,             \* how the call ended
    dirs,               \* local directories that exist
    fs,                 \* local files: path -> artifact
    gcs,                \* objects in the store: <<bucket, blob name>> -> artifact
    op,                 \* the last (de)serializer operation, its input and outcome
    saved               \* the last _serialize_local_model that returned: input and result

fitVars == <<training_mode, staging_bucket, training_job, pc, call, bound_args, mode_reads,
             pass_through_params, serialized_params, folder,
             param_name_to_serialized_info, user_calls, serializer_calls,
             render_calls, job_calls, run_calls, staging_reads, tmpdir, script,
             result>>

serVars == <<dirs, fs, gcs, op, saved>>

vars == <<fitVars, serVars>>

----------------------------------------------------------------------------
(* Bounds of the model *)

\* the number of arguments a call of fit is given
MaxArgs == 4

----------------------------------------------------------------------------
(* Values *)

None == "None"

\* the parameters of the user's fit, in signature order; none has a default
ParamNames == <<"data", "target_column", "epochs", "learning_rate">>

\* Python values an argument can be; type(v) is v.type
ArgValues ==
    { [type |-> "int", val |-> 1],
      [type |-> "float", val |-> 1], [type |-> "str", val |-> 1],
      [type |-> "DataFrame", val |-> 1], [type |-> "bool", val |-> 1] }

TypeOf(v) == v.type

\* the values training_mode is assigned
Modes == {"local", "cloud", "other"}

StagingBuckets == {None, "gs://test-staging-bucket"}

\* what datetime.datetime.now().isoformat(...) gives
Timestamps == {"2021-07-01-10:00:00.000", "2021-07-01-10:00:00.001"}

\* what a registered saver returns
Locations == {"uri_a", "uri_b"}

\* what the user's fit returns
UserResults == {"r1", "r2"}

\* directories tempfile.TemporaryDirectory() creates
TmpDirNames == {"/tmp/tmp_a"}

\* how much of a buffered write has reached the disk while the file is open
DiskStates == {"incomplete", "full"}

NoResult == [kind |-> "none", ptype |-> "", pname |-> "", value |-> ""]
NoTmpDir == [name |-> "", state |-> "none"]
NoScript == [path |-> <<>>, file |-> "absent", disk |-> "none"]
NoCall == [args |-> <<>>, npos |-> 0]

\* a fit(*args, **kwargs) call: the first npos values are positional, the
\* others keywords named after the parameters of their places
CallInputs ==
    { [args |-> a, npos |-> n] :
        a \in UNION { [1..k -> ArgValues] : k \in 0..MaxArgs }, n \in 0..MaxArgs }

\* a keyword has a parameter to be named after
WellFormed(c) ==
    /\ c.npos <= Len(c.args)
    /\ Len(c.args) > Len(ParamNames) => c.npos = Len(c.args)

----------------------------------------------------------------------------
(* VertexModel and the pure parts of the wrapper *)

\* VertexModel._data_serialization_mapping: type -> <<loader, saver>>
_data_serialization_mapping ==
    [t \in {"DataFrame"} |-> <<"_deserialize_dataframe", "_serialize_dataframe">>]

\* a variant that accepts by isinstance, so that bool passes as an int
valid_types_isinstance ==
    {"int", "float", "str", "bool"} \cup DOMAIN _data_serialization_mapping

\* [int, float, str] + list(obj._data_serialization_mapping.keys())
valid_types == {"int", "float", "str"} \cup DOMAIN _data_serialization_mapping

\* a variant that takes the remote path for "cloud" only
IsLocalUnlessCloud(mode) == mode # "cloud"

\* method.__self__.training_mode == "local"
IsLocal(mode) == mode = "local"

\* a variant that never misses the staging bucket
StagingMissingNever(b) == FALSE

\* staging_bucket is None
StagingMissing(b) == b = None

\* a variant that hands every argument over as a keyword
UserCallAllKeywords(c) ==
    [pos |-> <<>>,
     kw |-> [i \in 1..Len(c.args) |-> c.args[i]],
     outcome |-> "pending"]

\* method(*args, **kwargs), as the user's method receives it
UserCall(c) ==
    [pos |-> SubSeq(c.args, 1, c.npos),
     kw |-> [i \in (c.npos + 1)..Len(c.args) |-> c.args[i]],
     outcome |-> "pending"]

\* the call gives every parameter of the user's fit a value and no more:
\* otherwise binding it, or calling the method with it, raises TypeError
MatchesSignature(c) == Len(c.args) = Len(ParamNames)

\* inspect.signature(method).bind(*args, **kwargs).arguments, for a call
\* that matches the signature: the parameters in signature order
Bind(c) == [i \in 1..Len(c.args) |-> [name |-> ParamNames[i], value |-> c.args[i]]]

\* the first argument the validation loop rejects, 0 when there is none
FirstInvalid(bound) ==
    IF \E i \in 1..Len(bound) : TypeOf(bound[i].value) \notin valid_types
    THEN CHOOSE i \in 1..Len(bound) :
            /\ TypeOf(bound[i].value) \notin valid_types
            /\ \A j \in 1..(i - 1) : TypeOf(bound[j].value) \in valid_types
    ELSE 0

IsSerialized(p) == TypeOf(p.value) \in DOMAIN _data_serialization_mapping

\* the loop's serialized_params
SerializedOf(bound) == SelectSeq(bound, IsSerialized)

IsPassThrough(p) == ~IsSerialized(p)

\* a variant that also inlines the arguments that are serialized
PassThroughAll(bound) == bound

\* the loop's pass_through_params
PassThroughOf(bound) == SelectSeq(bound, IsPassThrough)

\* "/".join([staging_bucket, f"vertex_model_run_{timestamp}"]) and then
\* "/".join([vertex_model_root_folder, "serialized_input_parameters"])
ArtifactsFolder(bucket, timestamp) ==
    <<bucket, <<"vertex_model_run_", timestamp>>, "serialized_input_parameters">>

\* str(pathlib.Path(tmpdirname) / "training_script.py")
ScriptPath(tmpdirname) == <<tmpdirname, "training_script.py">>

\* a variant that submits with another container image
JobKwargsOtherImage(script_path) ==
    [display_name |-> "my_training_job",
     script_path |-> script_path,
     requirements |-> <<"pandas>=1.3">>,
     container_uri |-> "us-docker.pkg.dev/vertex-ai/training/tf-cpu.2-4:latest"]

\* the keyword arguments of aiplatform.CustomTrainingJob(...)
JobKwargs(script_path) ==
    [display_name |-> "my_training_job",
     script_path |-> script_path,
     requirements |-> <<"pandas>=1.3">>,
     container_uri |-> "us-docker.pkg.dev/vertex-ai/training/pytorch-xla.1-7:latest"]

\* the keyword arguments of obj._training_job.run(...)
RunKwargs == [replica_count |-> 1]

----------------------------------------------------------------------------
(* serializers/model.py: values *)

\* "gs://"
GS == <<"g", "s", ":", "/", "/">>

Slash == <<"/">>

\* artifact_uri values: "gs://", "gs://b", "gs://b/p", "/d", "d"
Uris ==
    { GS, GS \o <<"b">>, GS \o <<"b", "/", "p">>, <<"/", "d">>, <<"d">> }

\* the local directories there can be: "/d" alone, or also "gs://b", taken
\* as a relative path
LocalDirs == { { <<"/", "d">> }, { <<"/", "d">>, GS \o <<"b">> } }

\* model_type values
ModelTypes == { <<"x">>, <<"y">> }

\* torch.nn.Module objects: a linear model of weight w
Models == { [kind |-> "Module", w |-> 1], [kind |-> "Module", w |-> 2] }

NoModel == [kind |-> "none", w |-> 0]

\* inputs a model is applied to
ModelInputs == 0..2

\* model(x)
Forward(m, x) == m.w * x

\* exceptions blob.download_to_filename can raise
DownloadErrors == {"NotFound", "ValueError", "RuntimeError"}

NoOp ==
    [name |-> "none", uri |-> <<>>, obj |-> NoModel, model_type |-> <<>>,
     ret_path |-> <<>>, ret_model |-> NoModel, err |-> "none",
     wrapped |-> FALSE, msg_uri |-> <<>>, msg_err |-> "none", storage |-> <<>>]

(* serializers/model.py: pure parts *)

Min(a, b) == IF a < b THEN a ELSE b

\* s[i:j] for 0 <= i <= j
Slice(s, i, j) == SubSeq(s, i + 1, Min(j, Len(s)))

\* f with key k set to v
Put(f, k, v) == [x \in (DOMAIN f) \cup {k} |-> IF x = k THEN v ELSE f[x]]

\* torch.jit.script(obj)
JitScript(obj) == [kind |-> "ScriptModule", w |-> obj.w]

\* artifact_uri[0:6] != "gs://"
IsLocalUri(artifact_uri) == Slice(artifact_uri, 0, 6) # GS

\* "my_" + model_type + "_model.pth"
ModelFileName(model_type) ==
    <<"m", "y", "_">> \o model_type \o <<"_", "m", "o", "d", "e", "l", ".", "p", "t", "h">>

\* artifact_uri + "/my_" + model_type + "_model.pth"
LocalModelPath(artifact_uri, model_type) ==
    artifact_uri \o Slash \o ModelFileName(model_type)

\* a variant of the local branch that returns the directory it was given
SerializeToLocalReturnsDir(artifact_uri, compiled, model_type, files) ==
    [fs |-> Put(files, LocalModelPath(artifact_uri, model_type), compiled),
     ret |-> artifact_uri]

\* the local branch of _serialize_local_model: torch.jit.save to
\* path_to_model, which is returned
SerializeToLocal(artifact_uri, compiled, model_type, files) ==
    LET path_to_model == LocalModelPath(artifact_uri, model_type)
    IN [fs |-> Put(files, path_to_model, compiled), ret |-> path_to_model]

\* gcs_path with a leading "gs://" removed
StripScheme(gcs_path) ==
    IF Slice(gcs_path, 0, 5) = GS THEN Slice(gcs_path, 5, Len(gcs_path)) ELSE gcs_path

\* gcs_path with a trailing "/" removed
StripSlash(gcs_path) ==
    IF Len(gcs_path) > 0 /\ gcs_path[Len(gcs_path)] = "/"
    THEN SubSeq(gcs_path, 1, Len(gcs_path) - 1)
    ELSE gcs_path

\* the place of the first "/" of s, 0 when there is none
FirstSlash(s) ==
    IF \E i \in 1..Len(s) : s[i] = "/"
    THEN CHOOSE i \in 1..Len(s) : s[i] = "/" /\ \A j \in 1..(i - 1) : s[j] # "/"
    ELSE 0

\* utils.extract_bucket_and_prefix_from_gcs_path: bucket and prefix of a
\* scheme://bucket/prefix location; the empty prefix stands for no prefix
extract_bucket_and_prefix_from_gcs_path(gcs_path) ==
    LET q == StripSlash(StripScheme(gcs_path))
        k == FirstSlash(q)
    IN [bucket |-> IF k = 0 THEN q ELSE SubSeq(q, 1, k - 1),
        prefix |-> IF k = 0 THEN <<>> ELSE SubSeq(q, k + 1, Len(q))]

\* blob_path: the file name, under the prefix when there is one
BlobPath(gcs_blob_prefix, local_file_name) ==
    IF gcs_blob_prefix # <<>>
    THEN gcs_blob_prefix \o Slash \o local_file_name
    ELSE local_file_name

\* "".join(["gs://", "/".join([blob.bucket.name, blob.name])])
GcsPath(bucket_name, blob_name) == GS \o bucket_name \o Slash \o blob_name

\* torch.jit.load(path) on the local files: the artifact, or the exception
\* torch raises for a file that is not there
TorchLoad(files, path) ==
    IF path \in DOMAIN files
    THEN [err |-> "none", model |-> files[path]]
    ELSE [err |-> "ValueError", model |-> NoModel]

\* the (de)serializers have not been used
SerIdle ==
    /\ dirs = {}
    /\ fs = <<>>
    /\ gcs = <<>>
    /\ op = NoOp
    /\ saved = <<>>

----------------------------------------------------------------------------
(* The state after VertexModel.__init__, nothing configured *)

FitIdle ==
    /\ training_mode = "local"
    /\ staging_bucket = None
    /\ training_job = <<>>
    /\ pc = "idle"
    /\ call = NoCall
    /\ bound_args = <<>>
    /\ mode_reads = <<>>
    /\ pass_through_params = <<>>
    /\ serialized_params = <<>>
    /\ folder = <<>>
    /\ param_name_to_serialized_info = <<>>
    /\ user_calls = <<>>
    /\ serializer_calls = <<>>
    /\ render_calls = <<>>
    /\ job_calls = <<>>
    /\ run_calls = <<>>
    /\ staging_reads = <<>>
    /\ tmpdir = NoTmpDir
    /\ script = NoScript
    /\ result = NoResult

Init == FitIdle /\ SerIdle

\* the call-local state of a fit call that has just started
Fresh ==
    /\ pass_through_params' = <<>>
    /\ serialized_params' = <<>>
    /\ folder' = <<>>
    /\ param_name_to_serialized_info' = <<>>
    /\ serializer_calls' = <<>>
    /\ render_calls' = <<>>
    /\ job_calls' = <<>>
    /\ run_calls' = <<>>
    /\ staging_reads' = <<>>
    /\ tmpdir' = NoTmpDir
    /\ script' = NoScript

\* f(*args, **kwargs) is entered: the mode is read, and either the user's
\* method is called or the remote path starts: the class source is made and
\* the arguments are bound, which raises TypeError when they do not match
\* the signature of the user's fit
FitCall(c) ==
    /\ pc = "idle"
    /\ WellFormed(c)
    /\ mode_reads' = <<training_mode>>
    /\ Fresh
    /\ IF IsLocal(training_mode)
       THEN /\ pc' = "local"
            /\ call' = c
            /\ user_calls' = <<UserCall(c)>>
            /\ bound_args' = <<>>
            /\ result' = NoResult
       ELSE /\ call' = NoCall
            /\ user_calls' = <<>>
            /\ IF MatchesSignature(c)
               THEN /\ pc' = "validate"
                    /\ bound_args' = Bind(c)
                    /\ result' = NoResult
               ELSE /\ pc' = "done"
                    /\ bound_args' = <<>>
                    /\ result' = [NoResult EXCEPT !.kind = "TypeError", !.value = "bind"]
    /\ UNCHANGED <<training_mode, staging_bucket, training_job, serVars>>

\* f is entered on the remote path and source_utils._make_class_source
\* raises: the exception goes to the caller before the arguments are bound
FitCallSourceRaises ==
    /\ pc = "idle"
    /\ ~IsLocal(training_mode)
    /\ mode_reads' = <<training_mode>>
    /\ Fresh
    /\ pc' = "done"
    /\ call' = NoCall
    /\ user_calls' = <<>>
    /\ bound_args' = <<>>
    /\ result' = [NoResult EXCEPT !.kind = "BackendError", !.value = "_make_class_source"]
    /\ UNCHANGED <<training_mode, staging_bucket, training_job, serVars>>

\* return method(*args, **kwargs): the user's method, called with arguments
\* that match its signature, returns r
UserMethodReturns(r) ==
    /\ pc = "local"
    /\ MatchesSignature(call)
    /\ pc' = "done"
    /\ user_calls' = [user_calls EXCEPT ![1].outcome = r]
    /\ result' = [NoResult EXCEPT !.kind = "returned", !.value = r]
    /\ UNCHANGED <<training_mode, staging_bucket, training_job, call, bound_args, mode_reads,
                   pass_through_params, serialized_params, folder,
                   param_name_to_serialized_info, serializer_calls,
                   render_calls, job_calls, run_calls, staging_reads, tmpdir,
                   script, serVars>>

\* the user's method raises (a TypeError when the arguments do not match its
\* signature), and the wrapper lets the exception through
UserMethodRaises ==
    /\ pc = "local"
    /\ pc' = "done"
    /\ user_calls' = [user_calls EXCEPT ![1].outcome = "raised"]
    /\ result' = [NoResult EXCEPT !.kind = "UserError"]
    /\ UNCHANGED <<training_mode, staging_bucket, training_job, call, bound_args, mode_reads,
                   pass_through_params, serialized_params, folder,
                   param_name_to_serialized_info, serializer_calls,
                   render_calls, job_calls, run_calls, staging_reads, tmpdir,
                   script, serVars>>

\* the loop over bound_args.arguments: the first argument of an unsupported
\* type raises, otherwise the arguments are split
ValidateArguments ==
    /\ pc = "validate"
    /\ LET bound == bound_args
           i == FirstInvalid(bound)
       IN IF i # 0
          THEN /\ result' = [NoResult EXCEPT !.kind = "RuntimeError",
                                             !.ptype = TypeOf(bound[i].value),
                                             !.pname = bound[i].name,
                                             !.value = "not supported"]
               /\ pc' = "done"
               /\ UNCHANGED <<pass_through_params, serialized_params>>
          ELSE /\ pass_through_params' = PassThroughOf(bound)
               /\ serialized_params' = SerializedOf(bound)
               /\ pc' = "staging"
               /\ UNCHANGED result
    /\ UNCHANGED <<training_mode, staging_bucket, training_job, call, bound_args, mode_reads,
                   folder, param_name_to_serialized_info, user_calls,
                   serializer_calls, render_calls, job_calls, run_calls,
                   staging_reads, tmpdir, script, serVars>>

\* the staging bucket is read; unset raises, otherwise the run folder of
\* this call is named after the clock reading ts
ReadStagingBucket(ts) ==
    /\ pc = "staging"
    /\ staging_reads' = Append(staging_reads, staging_bucket)
    /\ IF StagingMissing(staging_bucket)
       THEN /\ result' = [NoResult EXCEPT !.kind = "RuntimeError",
                                          !.value = "Staging bucket must be set"]
            /\ pc' = "done"
            /\ UNCHANGED folder
       ELSE /\ folder' = ArtifactsFolder(staging_bucket, ts)
            /\ pc' = "serialize"
            /\ UNCHANGED result
    /\ UNCHANGED <<training_mode, staging_bucket, training_job, call, bound_args, mode_reads,
                   pass_through_params, serialized_params,
                   param_name_to_serialized_info, user_calls, serializer_calls,
                   render_calls, job_calls, run_calls, tmpdir, script, serVars>>

\* the serialized parameter the loop over serialized_params handles next
NextSerialized == serialized_params[Len(param_name_to_serialized_info) + 1]

\* serializer(serialized_inputs_artifacts_folder, parameter, parameter_name)
\* and what it gave back
SerializerCall(p, ret) ==
    [serializer |-> _data_serialization_mapping[TypeOf(p.value)][2],
     folder |-> folder, value |-> p.value, name |-> p.name, returned |-> ret]

\* one iteration of the loop over serialized_params: the saver returns uri
SerializeParameter(uri) ==
    /\ pc = "serialize"
    /\ Len(param_name_to_serialized_info) < Len(serialized_params)
    /\ serializer_calls' = Append(serializer_calls, SerializerCall(NextSerialized, uri))
    /\ param_name_to_serialized_info' =
          Append(param_name_to_serialized_info,
                 [name |-> NextSerialized.name, uri |-> uri,
                  type |-> TypeOf(NextSerialized.value)])
    /\ UNCHANGED <<training_mode, staging_bucket, training_job, pc, call,
                   bound_args, mode_reads, pass_through_params, serialized_params, folder,
                   user_calls, render_calls, job_calls, run_calls, staging_reads,
                   tmpdir, script, result, serVars>>

\* one iteration of the loop over serialized_params: the saver raises
SerializeParameterRaises ==
    /\ pc = "serialize"
    /\ Len(param_name_to_serialized_info) < Len(serialized_params)
    /\ serializer_calls' = Append(serializer_calls, SerializerCall(NextSerialized, "raised"))
    /\ result' = [NoResult EXCEPT !.kind = "BackendError", !.value = "serializer"]
    /\ pc' = "done"
    /\ UNCHANGED <<training_mode, staging_bucket, training_job, call, bound_args, mode_reads,
                   pass_through_params, serialized_params, folder,
                   param_name_to_serialized_info, user_calls, render_calls,
                   job_calls, run_calls, staging_reads, tmpdir, script, serVars>>

\* both with-blocks are left: the file is closed (its buffer flushed), then
\* the temporary directory is removed with the file in it
LeaveWithBlocks ==
    /\ script' = [script EXCEPT !.file = "deleted", !.disk = "none"]
    /\ tmpdir' = [tmpdir EXCEPT !.state = "deleted"]

\* source_utils._make_source(...), as called
RenderCall ==
    [cls_name |-> "LinearRegression", instance_method |-> "fit",
     pass_through_params |-> pass_through_params,
     param_name_to_serialized_info |-> param_name_to_serialized_info]

\* the temporary directory d is created, the source rendered, the script
\* file opened and the source written to it: the write is buffered, so any
\* part of it may be on disk while the file is open
WriteScript(d, disk) ==
    /\ pc = "serialize"
    /\ Len(param_name_to_serialized_info) = Len(serialized_params)
    /\ tmpdir' = [name |-> d, state |-> "exists"]
    /\ render_calls' = Append(render_calls, RenderCall)
    /\ script' = [path |-> ScriptPath(d), file |-> "open", disk |-> disk]
    /\ pc' = "construct"
    /\ UNCHANGED <<training_mode, staging_bucket, training_job, call, bound_args, mode_reads,
                   pass_through_params, serialized_params, folder,
                   param_name_to_serialized_info, user_calls, serializer_calls,
                   job_calls, run_calls, staging_reads, result, serVars>>

\* the temporary directory d is created and source_utils._make_source
\* raises: the directory is removed and the exception goes to the caller
WriteScriptRenderRaises(d) ==
    /\ pc = "serialize"
    /\ Len(param_name_to_serialized_info) = Len(serialized_params)
    /\ tmpdir' = [name |-> d, state |-> "deleted"]
    /\ render_calls' = Append(render_calls, RenderCall)
    /\ result' = [NoResult EXCEPT !.kind = "BackendError", !.value = "_make_source"]
    /\ pc' = "done"
    /\ UNCHANGED <<training_mode, staging_bucket, training_job, call, bound_args, mode_reads,
                   pass_through_params, serialized_params, folder,
                   param_name_to_serialized_info, user_calls, serializer_calls,
                   job_calls, run_calls, staging_reads, script, serVars>>

\* aiplatform.CustomTrainingJob(...), as called, and the script file as the
\* constructor finds it
JobCall ==
    [args |-> <<>>, kwargs |-> JobKwargs(script.path),
     file |-> script.file, disk |-> script.disk, tmpdir |-> tmpdir.state]

\* obj._training_job = aiplatform.CustomTrainingJob(...), inside the
\* with-block of the open file
ConstructJob ==
    /\ pc = "construct"
    /\ job_calls' = Append(job_calls, JobCall)
    /\ training_job' = <<JobKwargs(script.path)>>
    /\ pc' = "run"
    /\ UNCHANGED <<training_mode, staging_bucket, call, bound_args, mode_reads,
                   pass_through_params, serialized_params, folder,
                   param_name_to_serialized_info, user_calls, serializer_calls,
                   render_calls, run_calls, staging_reads, tmpdir, script, result,
                   serVars>>

\* the constructor raises: the with-blocks are left and the exception goes
\* to the caller
ConstructJobRaises ==
    /\ pc = "construct"
    /\ job_calls' = Append(job_calls, JobCall)
    /\ LeaveWithBlocks
    /\ result' = [NoResult EXCEPT !.kind = "BackendError", !.value = "CustomTrainingJob"]
    /\ pc' = "done"
    /\ UNCHANGED <<training_mode, staging_bucket, training_job, call, bound_args, mode_reads,
                   pass_through_params, serialized_params, folder,
                   param_name_to_serialized_info, user_calls, serializer_calls,
                   render_calls, run_calls, staging_reads, serVars>>

\* obj._training_job.run(replica_count=1), as called, and the script file
\* as run finds it
RunCall ==
    [kwargs |-> RunKwargs, file |-> script.file, disk |-> script.disk,
     tmpdir |-> tmpdir.state]

\* obj._training_job.run(replica_count=1) is called and blocks
RunJob ==
    /\ pc = "run"
    /\ run_calls' = Append(run_calls, RunCall)
    /\ pc' = "running"
    /\ UNCHANGED <<training_mode, staging_bucket, training_job, call, bound_args, mode_reads,
                   pass_through_params, serialized_params, folder,
                   param_name_to_serialized_info, user_calls, serializer_calls,
                   render_calls, job_calls, staging_reads, tmpdir, script, result,
                   serVars>>

\* run returns: the with-blocks are left and f returns None
RunJobReturns ==
    /\ pc = "running"
    /\ LeaveWithBlocks
    /\ result' = [NoResult EXCEPT !.kind = "returned", !.value = None]
    /\ pc' = "done"
    /\ UNCHANGED <<training_mode, staging_bucket, training_job, call, bound_args, mode_reads,
                   pass_through_params, serialized_params, folder,
                   param_name_to_serialized_info, user_calls, serializer_calls,
                   render_calls, job_calls, run_calls, staging_reads, serVars>>

\* run raises: the with-blocks are left and the exception goes to the caller
RunJobRaises ==
    /\ pc = "running"
    /\ LeaveWithBlocks
    /\ result' = [NoResult EXCEPT !.kind = "BackendError", !.value = "run"]
    /\ pc' = "done"
    /\ UNCHANGED <<training_mode, staging_bucket, training_job, call, bound_args, mode_reads,
                   pass_through_params, serialized_params, folder,
                   param_name_to_serialized_info, user_calls, serializer_calls,
                   render_calls, job_calls, run_calls, staging_reads, serVars>>

\* f has returned or raised: its frame is gone and the caller goes on
Return ==
    /\ pc = "done"
    /\ pc' = "idle"
    /\ call' = NoCall
    /\ bound_args' = <<>>
    /\ mode_reads' = <<>>
    /\ user_calls' = <<>>
    /\ Fresh
    /\ result' = NoResult
    /\ UNCHANGED <<training_mode, staging_bucket, training_job, serVars>>

\* my_model.training_mode = m, at any moment: the flag is not guarded
SetTrainingMode(m) ==
    /\ training_mode' = m
    /\ training_mode # m
    /\ UNCHANGED <<staging_bucket, training_job, pc, call, bound_args, mode_reads,
                   pass_through_params, serialized_params, folder,
                   param_name_to_serialized_info, user_calls, serializer_calls,
                   render_calls, job_calls, run_calls, staging_reads, tmpdir,
                   script, result, serVars>>

\* aiplatform.init(staging_bucket=b), between calls of fit
SetStagingBucket(b) ==
    /\ pc = "idle"
    /\ staging_bucket # b
    /\ staging_bucket' = b
    /\ UNCHANGED <<training_mode, training_job, pc, call, bound_args, mode_reads,
                   pass_through_params, serialized_params, folder,
                   param_name_to_serialized_info, user_calls, serializer_calls,
                   render_calls, job_calls, run_calls, staging_reads, tmpdir,
                   script, result, serVars>>

Next ==
    \/ pc = "idle" /\ \E c \in CallInputs : FitCall(c)
    \/ FitCallSourceRaises
    \/ \E r \in UserResults : UserMethodReturns(r)
    \/ UserMethodRaises
    \/ ValidateArguments
    \/ \E ts \in Timestamps : ReadStagingBucket(ts)
    \/ \E uri \in Locations : SerializeParameter(uri)
    \/ SerializeParameterRaises
    \/ \E d \in TmpDirNames, disk \in DiskStates : WriteScript(d, disk)
    \/ \E d \in TmpDirNames : WriteScriptRenderRaises(d)
    \/ ConstructJob
    \/ ConstructJobRaises
    \/ RunJob
    \/ RunJobReturns
    \/ RunJobRaises
    \/ Return
    \/ \E m \in Modes : SetTrainingMode(m)
    \/ \E b \in StagingBuckets : SetStagingBucket(b)

Spec == Init /\ [][Next]_vars

----------------------------------------------------------------------------
(* Properties of the dispatch wrapper, checked under Spec *)

\* a call of fit is in progress or has just ended, and took the remote path
Remote == mode_reads # <<>> /\ mode_reads[1] # "local"

\* and its arguments were bound to the parameters of the user's fit
Dispatched == Remote /\ bound_args # <<>>

\* the types a remote call accepts: exactly int, float, str or a key of
\* _data_serialization_mapping
Supported(t) == t \in {"int", "float", "str"} \/ t \in DOMAIN _data_serialization_mapping

Offending(bound) == { i \in 1..Len(bound) : ~Supported(TypeOf(bound[i].value)) }

NoBackendUse ==
    /\ serializer_calls = <<>>
    /\ render_calls = <<>>
    /\ job_calls = <<>>
    /\ run_calls = <<>>
    /\ script = NoScript
    /\ tmpdir = NoTmpDir

\* C1: a remote call with an argument whose type is not exactly int, float,
\* str or a registered type ends in a RuntimeError that names an offending
\* parameter and its type, and up to then no saver was called, no script
\* written, no CustomTrainingJob constructed and run not called, wherever the
\* argument stands and whatever the staging bucket is.
C1_UnsupportedTypeFailsFirst ==
    (Remote /\ Offending(bound_args) # {}) =>
        /\ NoBackendUse
        /\ staging_reads = <<>>
        /\ pc \in {"validate", "done"}
        /\ pc = "done" =>
              /\ result.kind = "RuntimeError"
              /\ result.value = "not supported"
              /\ \E i \in Offending(bound_args) :
                    /\ result.pname = bound_args[i].name
                    /\ result.ptype = TypeOf(bound_args[i].value)

\* C1 witness: with a staging bucket set, a call whose first argument is a
\* DataFrame and whose second is a bool has failed naming the second
C1_Witness ==
    /\ Remote /\ pc = "done"
    /\ staging_bucket # None
    /\ Len(bound_args) = 4
    /\ TypeOf(bound_args[1].value) = "DataFrame"
    /\ TypeOf(bound_args[2].value) = "bool"
    /\ TypeOf(bound_args[3].value) = "int"
    /\ result.kind = "RuntimeError"
    /\ result.pname = "target_column"

\* C2: a remote call whose bound arguments are all supported, made while the
\* staging bucket is None, ends in a RuntimeError asking to set the staging
\* bucket; no saver is called, no script written, no job constructed or run.
C2_MissingStagingFailsFirst ==
    (Dispatched /\ Offending(bound_args) = {} /\ staging_bucket = None) =>
        /\ NoBackendUse
        /\ pc \in {"validate", "staging", "done"}
        /\ pc = "done" =>
              /\ result.kind = "RuntimeError"
              /\ result.value = "Staging bucket must be set"
              /\ staging_reads = <<None>>

\* C2 witness: such a call, with a DataFrame to serialize, has failed
C2_Witness ==
    /\ Remote /\ pc = "done"
    /\ result.value = "Staging bucket must be set"
    /\ \E i \in 1..Len(bound_args) : TypeOf(bound_args[i].value) = "DataFrame"

\* the path ends in "/training_script.py"
EndsWithTrainingScript(path) ==
    Len(path) >= 2 /\ path[Len(path)] = "training_script.py"

\* C3: a remote call that returns has constructed exactly one
\* CustomTrainingJob, with no positional argument and exactly the keywords
\* display_name, requirements, container_uri and script_path of the fixed
\* values, and has called run exactly once with replica_count=1; no call
\* constructs or runs a job twice.
C3_ExactlyOneJob ==
    /\ Len(job_calls) <= 1 /\ Len(run_calls) <= 1
    /\ (Remote /\ pc = "done" /\ result.kind = "returned") =>
          /\ Len(job_calls) = 1
          /\ job_calls[1].args = <<>>
          /\ DOMAIN job_calls[1].kwargs =
                {"display_name", "requirements", "container_uri", "script_path"}
          /\ job_calls[1].kwargs.display_name = "my_training_job"
          /\ job_calls[1].kwargs.requirements = <<"pandas>=1.3">>
          /\ job_calls[1].kwargs.container_uri =
                "us-docker.pkg.dev/vertex-ai/training/pytorch-xla.1-7:latest"
          /\ EndsWithTrainingScript(job_calls[1].kwargs.script_path)
          /\ Len(run_calls) = 1
          /\ run_calls[1].kwargs = [replica_count |-> 1]
          /\ training_job = <<job_calls[1].kwargs>>

\* C3 witness: fit(df, "target", 1, 0.1) in mode "cloud" has returned
C3_Witness ==
    /\ Remote /\ pc = "done" /\ result.kind = "returned"
    /\ mode_reads = <<"cloud">>
    /\ Len(bound_args) = 4
    /\ TypeOf(bound_args[1].value) = "DataFrame"
    /\ TypeOf(bound_args[2].value) = "str"
    /\ TypeOf(bound_args[3].value) = "int"
    /\ TypeOf(bound_args[4].value) = "float"

\* the part of C4 that holds in every state of a local call
C4_LocalState ==
    (mode_reads # <<>> /\ mode_reads[1] = "local") =>
        /\ pc \in {"local", "done"}
        /\ Len(user_calls) = 1
        /\ user_calls[1].pos = [i \in 1..call.npos |-> call.args[i]]
        /\ DOMAIN user_calls[1].kw = (call.npos + 1)..Len(call.args)
        /\ \A i \in DOMAIN user_calls[1].kw : user_calls[1].kw[i] = call.args[i]
        /\ NoBackendUse
        /\ staging_reads = <<>>
        /\ pass_through_params = <<>> /\ serialized_params = <<>>
        /\ pc = "done" =>
              \/ /\ result.kind = "returned"
                 /\ user_calls[1].outcome \in UserResults
                 /\ result.value = user_calls[1].outcome
              \/ /\ result.kind = "UserError"
                 /\ user_calls[1].outcome = "raised"

\* the part of C4 that holds of every step of a local call
C4_LocalStep ==
    (pc = "local" \/ pc' = "local") => training_job' = training_job

\* C4: in mode "local" the wrapper passes the positional and keyword
\* arguments unchanged to the user's method and returns its result or lets
\* its exception through; it validates nothing, reads no staging bucket,
\* calls no saver, writes no script, constructs and runs no job and leaves
\* _training_job as it was.
C4_LocalDelegates == []C4_LocalState /\ [][C4_LocalStep]_vars

\* C4 witness: a local call with one positional and three keyword arguments,
\* one of an unsupported type, made with no staging bucket, has returned
C4_Witness ==
    /\ pc = "done" /\ mode_reads = <<"local">>
    /\ result.kind = "returned"
    /\ staging_bucket = None
    /\ Len(call.args) = 4 /\ call.npos = 1
    /\ TypeOf(call.args[2]) = "bool"

\* the path the call in progress is on, as its effects show
Path == IF pc = "local" \/ user_calls # <<>> THEN "local" ELSE "remote"

C8_State ==
    pc # "idle" =>
        /\ Len(mode_reads) = 1
        /\ (Path = "local") <=> (mode_reads[1] = "local")

C8_Step ==
    /\ (pc = "idle" /\ pc' # "idle") => mode_reads' = <<training_mode>>
    /\ (pc # "idle" /\ pc' # "idle") => (mode_reads' = mode_reads /\ Path' = Path)

\* C8: every call of fit reads training_mode once, when it starts, and takes
\* the local path exactly if the value read is "local" and the remote path
\* for any other value; assigning the flag later does not change the path of
\* the call in progress.
C8_ModeReadOncePerCall == []C8_State /\ [][C8_Step]_vars

\* C8 witness: a call started in mode "other" is running its job after the
\* flag was set back to "local"
C8_Witness ==
    /\ pc = "running"
    /\ mode_reads = <<"other">>
    /\ training_mode = "local"

Names(params) == { params[i].name : i \in 1..Len(params) }

Occurrences(params, n) == Cardinality({ i \in 1..Len(params) : params[i].name = n })

\* C9: in a remote call that passed validation every bound argument is in
\* exactly one of pass_through_params and serialized_params, with its value,
\* and in serialized_params exactly if its type is registered; savers are
\* called in the order of serialized_params, at most once each, all with the
\* folder <staging_bucket>/vertex_model_run_<timestamp>/
\* serialized_input_parameters of this call; and when the script is rendered
\* every saver has been called exactly once and the renderer gets the
\* pass-through arguments and, for each serialized one, the location its
\* saver returned and its type.
C9_Partition ==
    (Dispatched /\ pc # "validate" /\ Offending(bound_args) = {}) =>
        /\ \A i \in 1..Len(bound_args) :
              LET a == bound_args[i]
                  registered == TypeOf(a.value) \in DOMAIN _data_serialization_mapping
              IN /\ Occurrences(pass_through_params, a.name)
                      + Occurrences(serialized_params, a.name) = 1
                 /\ registered <=> a.name \in Names(serialized_params)
                 /\ \A j \in 1..Len(serialized_params) :
                       serialized_params[j].name = a.name
                          => serialized_params[j].value = a.value
                 /\ \A j \in 1..Len(pass_through_params) :
                       pass_through_params[j].name = a.name
                          => pass_through_params[j].value = a.value
        /\ Len(pass_through_params) + Len(serialized_params) = Len(bound_args)
        /\ Len(serializer_calls) <= Len(serialized_params)
        /\ serializer_calls # <<>> =>
              \E ts \in Timestamps :
                 \A k \in 1..Len(serializer_calls) :
                    serializer_calls[k].folder =
                       <<staging_reads[1], <<"vertex_model_run_", ts>>,
                         "serialized_input_parameters">>
        /\ \A k \in 1..Len(serializer_calls) :
              /\ serializer_calls[k].name = serialized_params[k].name
              /\ serializer_calls[k].value = serialized_params[k].value
              /\ serializer_calls[k].serializer = "_serialize_dataframe"
        /\ render_calls # <<>> =>
              /\ Len(render_calls) = 1
              /\ Len(serializer_calls) = Len(serialized_params)
              /\ render_calls[1].pass_through_params = pass_through_params
              /\ Len(render_calls[1].param_name_to_serialized_info)
                    = Len(serialized_params)
              /\ \A k \in 1..Len(serialized_params) :
                    render_calls[1].param_name_to_serialized_info[k] =
                       [name |-> serialized_params[k].name,
                        uri |-> serializer_calls[k].returned,
                        type |-> TypeOf(serialized_params[k].value)]
              /\ Names(render_calls[1].pass_through_params)
                    \cup Names(render_calls[1].param_name_to_serialized_info)
                    = Names(bound_args)

\* C9 witness: a script was rendered for a call with two DataFrames whose
\* savers returned different locations
C9_Witness ==
    /\ Remote /\ pc = "construct"
    /\ Len(serialized_params) = 2
    /\ Len(pass_through_params) = 2
    /\ serializer_calls[1].returned # serializer_calls[2].returned

\* C9 witness, second case: one serialized and one pass-through argument
C9_WitnessMixed ==
    /\ Remote /\ pc = "construct"
    /\ Len(serialized_params) = 1 /\ Len(pass_through_params) = 3

\* C10: the script is completely written and its file closed before the
\* CustomTrainingJob is constructed; file and temporary directory exist
\* while the job is constructed and run; the directory is deleted once run
\* has returned or raised.
C10_ScriptClosedBeforeJob ==
    /\ \A k \in 1..Len(job_calls) :
          /\ job_calls[k].file = "closed"
          /\ job_calls[k].disk = "full"
          /\ job_calls[k].tmpdir = "exists"
    /\ \A k \in 1..Len(run_calls) :
          /\ run_calls[k].file \in {"open", "closed"}
          /\ run_calls[k].tmpdir = "exists"
    /\ pc \in {"run", "running"} =>
          (tmpdir.state = "exists" /\ script.file \in {"open", "closed"})
    /\ (pc = "done" /\ run_calls # <<>>) => tmpdir.state = "deleted"

----------------------------------------------------------------------------
(* serializers/model.py: operations, specification SpecSer *)

\* nothing is saved yet
InitSer ==
    /\ FitIdle
    /\ dirs \in LocalDirs
    /\ fs = <<>>
    /\ gcs = <<>>
    /\ op = NoOp
    /\ saved = <<>>

\* blob.upload_from_filename(str(path_to_model)), as called
UploadCall(bucket, blob_path, content) ==
    [call |-> "upload_from_filename", bucket |-> bucket, blob |-> blob_path,
     content |-> content]

\* _serialize_local_model(artifact_uri, obj, model_type) with a storage
\* client whose upload succeeds; torch.jit.save raises RuntimeError when the
\* directory of the path does not exist
SerializeLocalModel(artifact_uri, obj, model_type) ==
    LET compiled_custom_model == JitScript(obj)
        started == [NoOp EXCEPT !.name = "serialize", !.uri = artifact_uri,
                                !.obj = obj, !.model_type = model_type]
    IN IF IsLocalUri(artifact_uri)
       THEN IF artifact_uri \in dirs
            THEN LET r == SerializeToLocal(artifact_uri, compiled_custom_model,
                                           model_type, fs)
                 IN /\ fs' = r.fs
                    /\ op' = [started EXCEPT !.ret_path = r.ret]
                    /\ saved' = <<[uri |-> artifact_uri, obj |-> obj,
                                   model_type |-> model_type, ret |-> r.ret]>>
                    /\ UNCHANGED <<gcs, dirs, fitVars>>
            ELSE /\ op' = [started EXCEPT !.err = "RuntimeError", !.msg_err = "RuntimeError"]
                 /\ UNCHANGED <<fs, gcs, saved, dirs, fitVars>>
       ELSE LET loc == extract_bucket_and_prefix_from_gcs_path(artifact_uri)
                blob_path == BlobPath(loc.prefix, ModelFileName(model_type))
                gcs_path == GcsPath(loc.bucket, blob_path)
            IN /\ gcs' = Put(gcs, <<loc.bucket, blob_path>>, compiled_custom_model)
               /\ op' = [started EXCEPT
                            !.ret_path = gcs_path,
                            !.storage = <<UploadCall(loc.bucket, blob_path,
                                                     compiled_custom_model)>>]
               /\ saved' = <<[uri |-> artifact_uri, obj |-> obj,
                              model_type |-> model_type, ret |-> gcs_path]>>
               /\ UNCHANGED <<fs, dirs, fitVars>>

\* _serialize_local_model on its storage branch with a storage client whose
\* upload raises: the exception goes to the caller
SerializeLocalModelUploadRaises(artifact_uri, obj, model_type) ==
    /\ ~IsLocalUri(artifact_uri)
    /\ LET loc == extract_bucket_and_prefix_from_gcs_path(artifact_uri)
           blob_path == BlobPath(loc.prefix, ModelFileName(model_type))
       IN op' = [NoOp EXCEPT !.name = "serialize", !.uri = artifact_uri,
                             !.obj = obj, !.model_type = model_type,
                             !.err = "BackendError", !.msg_err = "BackendError",
                             !.storage = <<UploadCall(loc.bucket, blob_path,
                                                      JitScript(obj))>>]
    /\ UNCHANGED <<fs, gcs, saved, dirs, fitVars>>

\* blob.download_to_filename(dest_file), as called
DownloadCall(bucket, blob) ==
    [call |-> "download_to_filename", bucket |-> bucket, blob |-> blob,
     content |-> NoModel]

\* _deserialize_remote_model(artifact_uri); on the storage branch the
\* download ends as dl says: "ok" (the object is there) or an exception
DeserializeRemoteModel(artifact_uri, dl) ==
    LET started == [NoOp EXCEPT !.name = "deserialize", !.uri = artifact_uri]
    IN IF IsLocalUri(artifact_uri)
       THEN /\ dl = "ok"
            /\ LET r == TorchLoad(fs, artifact_uri)
               IN op' = [started EXCEPT !.ret_model = r.model, !.err = r.err,
                                        !.msg_err = r.err]
            /\ UNCHANGED <<fs, gcs, saved, dirs, fitVars>>
       ELSE LET loc == extract_bucket_and_prefix_from_gcs_path(artifact_uri)
                key == <<loc.bucket, loc.prefix>>
                called == [started EXCEPT
                              !.storage = <<DownloadCall(loc.bucket, loc.prefix)>>]
            IN /\ dl = "ok" => key \in DOMAIN gcs
               /\ IF dl = "ok"
                  THEN LET r == TorchLoad([f \in {"deserialized_model.pt"} |-> gcs[key]],
                                          "deserialized_model.pt")
                       IN op' = [called EXCEPT !.ret_model = r.model]
                  ELSE IF dl \in {"ValueError", "RuntimeError"}
                       THEN op' = [called EXCEPT !.err = "RuntimeError",
                                                 !.wrapped = TRUE,
                                                 !.msg_uri = artifact_uri,
                                                 !.msg_err = dl]
                       ELSE op' = [called EXCEPT !.err = dl, !.msg_err = dl]
               /\ UNCHANGED <<fs, gcs, saved, dirs, fitVars>>

\* the locations a caller loads from: the given ones and what a save returned
LoadUris == Uris \cup { saved[i].ret : i \in 1..Len(saved) }

NextSer ==
    \/ \E u \in Uris, m \in Models, t \in ModelTypes : SerializeLocalModel(u, m, t)
    \/ \E u \in Uris, m \in Models, t \in ModelTypes :
          SerializeLocalModelUploadRaises(u, m, t)
    \/ \E u \in LoadUris, dl \in {"ok"} \cup DownloadErrors :
          DeserializeRemoteModel(u, dl)

SpecSer == InitSer /\ [][NextSer]_vars

----------------------------------------------------------------------------
(* Properties of the model (de)serializers, checked under SpecSer *)

\* the location names durable storage: it starts with "gs://"
StartsWithGS(uri) == Len(uri) >= 5 /\ SubSeq(uri, 1, 5) = GS

\* C5: given a location that starts with "gs://", _serialize_local_model
\* uploads the compiled model exactly once, to the blob
\* <prefix>/my_<model_type>_model.pth of the named bucket (without
\* "<prefix>/" when there is no prefix), and returns gs://<bucket>/<blob>;
\* given any other location it writes <artifact_uri>/my_<model_type>_model.pth,
\* calls no storage client and returns that path.
C5_SerializeUploadsDurable ==
    op.name = "serialize" =>
        IF StartsWithGS(op.uri)
        THEN LET loc == extract_bucket_and_prefix_from_gcs_path(op.uri)
                 blob == IF loc.prefix = <<>>
                         THEN ModelFileName(op.model_type)
                         ELSE loc.prefix \o Slash \o ModelFileName(op.model_type)
             IN /\ Len(op.storage) = 1
                /\ op.storage[1].call = "upload_from_filename"
                /\ op.storage[1].bucket = loc.bucket
                /\ op.storage[1].blob = blob
                /\ op.storage[1].content = JitScript(op.obj)
                /\ op.err = "none" => op.ret_path = GS \o loc.bucket \o Slash \o blob
        ELSE /\ op.storage = <<>>
             /\ op.err = "none" =>
                   /\ op.ret_path = op.uri \o Slash \o ModelFileName(op.model_type)
                   /\ op.ret_path \in DOMAIN fs
                   /\ fs[op.ret_path] = JitScript(op.obj)

\* C6: given a location that starts with "gs://", _deserialize_remote_model
\* fetches through the storage client, and a ValueError or RuntimeError of
\* the download or the load reaches the caller as a RuntimeError that holds
\* the location and the underlying error, never raw.
C6_DeserializeWrapsErrors ==
    (op.name = "deserialize" /\ StartsWithGS(op.uri)) =>
        /\ Len(op.storage) = 1
        /\ op.storage[1].call = "download_to_filename"
        /\ op.msg_err \in {"ValueError", "RuntimeError"} =>
              /\ op.err = "RuntimeError"
              /\ op.wrapped
              /\ op.msg_uri = op.uri

\* C7: after _serialize_local_model(d, m, t) for an existing local directory
\* d, _deserialize_remote_model of the location it returned gives the
\* artifact the save wrote at that location: the compiled form of m, which
\* maps every input to what m maps it to.
C7_LocalRoundTrip ==
    (/\ op.name = "deserialize"
     /\ saved # <<>>
     /\ ~StartsWithGS(saved[1].uri)
     /\ op.uri = saved[1].ret) =>
        /\ op.err = "none"
        /\ saved[1].ret \in DOMAIN fs
        /\ op.ret_model = fs[saved[1].ret]
        /\ op.ret_model = [kind |-> "ScriptModule", w |-> saved[1].obj.w]
        /\ \A x \in ModelInputs : Forward(op.ret_model, x) = Forward(saved[1].obj, x)

\* C7 witness: a model saved under "/d" was loaded back
C7_Witness ==
    /\ op.name = "deserialize"
    /\ saved # <<>>
    /\ saved[1].uri = <<"/", "d">>
    /\ op.uri = saved[1].ret
    /\ op.ret_model.kind = "ScriptModule"
    /\ op.ret_model.w = 2

====
